---- MODULE Spec2Model ----
(***************************************************************************)
(* Model of the patient-intake dialogue engine: the specialty registry     *)
(* (agent/specialty_nodes/registry.py), the node factories and transition  *)
(* callbacks of agent/general_nodes and agent/specialty_nodes, and the     *)
(* session bootstrap of bot.py.                                            *)
(*                                                                         *)
(* Python values that cross the tool-call boundary are tagged records      *)
(* (Str, Bool, Num, None, List, Dict) so that a value of the wrong type is *)
(* a value the model can hold, and an operation applied to it raises as    *)
(* Python does.                                                            *)
(***************************************************************************)
EXTENDS Integers, Sequences, FiniteSets, TLC

VARIABLES
    pc,            \* "startup" | "session" | "crashed": the process's position
    flows,         \* NodeRegistry._flows: insertion-ordered dict, as a sequence of classes
    reg_log,       \* history: the classes passed to register, in call order
    last_reg,      \* history: the last register call and its outcome
    last_match,    \* history: the last direct get_node_for_complaint call and its outcome
    current_node,  \* the flow manager's current node (the last set_node)
    state,         \* flow_manager.state
    installed,     \* history: every node handed to set_node, in order
    last_call,     \* history: the last function call of the LLM layer and its handler's outcome
    error,         \* the exception the last call's transition callback raised, or "none"
    specialty_flow,\* history: what handle_complaint_transition got from the registry
    clock,         \* the time datetime.now() was last read at
    bot_procs,     \* server.py bot_procs: pid -> (process, room_url), pids being 1, 2, ...
    requests       \* server.py: each HTTP request's position in start_agent and its room

vars == <<pc, flows, reg_log, last_reg, last_match, current_node, state,
          installed, last_call, error, specialty_flow, clock, bot_procs, requests>>

registry_vars == <<flows, reg_log, last_reg, last_match>>
session_vars == <<current_node, state, installed, last_call, error, specialty_flow>>
server_vars == <<bot_procs, requests>>

----------------------------------------------------------------------------
(* Bounds of the model *)

\* register calls made during startup
MaxRegs == 2

\* elements of an associated_symptoms list handed to an assessment handler
MaxSymptoms == 2

\* HTTP requests the server receives
MaxRequests == 2

----------------------------------------------------------------------------
(* Python values *)

Str(s) == [t |-> "str", s |-> s]
Bool(b) == [t |-> "bool", b |-> b]
Num(n) == [t |-> "num", n |-> n]
List(l) == [t |-> "list", l |-> l]
Dict(d) == [t |-> "dict", d |-> d]
None == [t |-> "None"]

\* the outcome of a call: a returned value, or an exception that propagates
Return(v) == [exc |-> "none", val |-> v]
Raise(e) == [exc |-> e]
Raised(r) == r.exc # "none"

\* dict.get(key, default)
Get(args, key, default) == IF key \in DOMAIN args THEN args[key] ELSE default

----------------------------------------------------------------------------
(* Python str operations, character by character *)

UpperChars == "ABCDEFGHIJKLMNOPQRSTUVWXYZ"
LowerChars == "abcdefghijklmnopqrstuvwxyz"

\* the lower-case letter of each upper-case letter
LowerOf ==
    [c \in {SubSeq(UpperChars, i, i) : i \in 1..Len(UpperChars)} |->
        LET i == CHOOSE k \in 1..Len(UpperChars) : SubSeq(UpperChars, k, k) = c
        IN  SubSeq(LowerChars, i, i)]

lower_char(c) == IF c \in DOMAIN LowerOf THEN LowerOf[c] ELSE c

\* the characters of s from position i on, each in lower case
RECURSIVE lower_from(_, _)
lower_from(s, i) ==
    IF i > Len(s) THEN ""
    ELSE lower_char(SubSeq(s, i, i)) \o lower_from(s, i + 1)

\* str.lower()
lower(s) == lower_from(s, 1)

\* `sub in s` for two str
Contains(sub, s) ==
    \E i \in 0..(Len(s) - Len(sub)) : SubSeq(s, i + 1, i + Len(sub)) = sub

----------------------------------------------------------------------------
(* Specialty classes: __name__ and get_trigger_phrases() *)

ChestPainNode ==
    [name |-> "ChestPainNode",
     triggers |-> <<"chest pain", "chest pressure", "chest tightness",
                    "heart pain", "angina">>]

RespiratoryNode ==
    [name |-> "RespiratoryNode",
     triggers |-> <<"breathing problem", "shortness of breath",
                    "difficulty breathing", "cough", "respiratory",
                    "breathing difficulty">>]

SourceClasses == {ChestPainNode, RespiratoryNode}

\* Further SpecialtyNode subclasses a caller of the registry can pass to
\* register: a less specific phrase, a phrase with capitals, and a second
\* class whose __name__ is already taken.
PainNode == [name |-> "PainNode", triggers |-> <<"pain">>]
CoughClinicNode == [name |-> "CoughClinicNode", triggers |-> <<"Cough">>]
OtherChestPainNode == [name |-> "ChestPainNode", triggers |-> <<"heart">>]

FixtureClasses == {PainNode, CoughClinicNode, OtherChestPainNode}

----------------------------------------------------------------------------
(* NodeRegistry *)

\* cls._flows[flow_class.__name__] = flow_class: a key already present keeps
\* its position and gets the new class, a new key is inserted last
register(fl, flow_class) ==
    IF \E i \in 1..Len(fl) : fl[i].name = flow_class.name
    THEN [i \in 1..Len(fl) |->
            IF fl[i].name = flow_class.name THEN flow_class ELSE fl[i]]
    ELSE Append(fl, flow_class)

\* any(trigger in complaint_lower for trigger in flow_class.get_trigger_phrases())
any_trigger(flow_class, complaint_lower) ==
    \E j \in 1..Len(flow_class.triggers) :
        Contains(flow_class.triggers[j], complaint_lower)

\* a bug the lookup could have: the last matching class wins
get_node_for_complaint_last(fl, complaint) ==
    IF complaint.t # "str" THEN Raise("AttributeError")
    ELSE LET hits == {i \in 1..Len(fl) :
                        \E complaint_lower \in {lower(complaint.s)} :
                            any_trigger(fl[i], complaint_lower)}
         IN  IF hits = {} THEN Return(None)
             ELSE Return(fl[CHOOSE i \in hits : \A k \in hits : k <= i])

\* the first class of _flows.values() with a matching trigger, else None;
\* complaint.lower() raises on a value that is no str
get_node_for_complaint(fl, complaint) ==
    IF complaint.t # "str" THEN Raise("AttributeError")
    ELSE LET hits == {i \in 1..Len(fl) :
                        \E complaint_lower \in {lower(complaint.s)} :
                            any_trigger(fl[i], complaint_lower)}
         IN  IF hits = {} THEN Return(None)
             ELSE Return(fl[CHOOSE i \in hits : \A k \in hits : i <= k])

\* one call of NodeRegistry.register, which returns flow_class and never raises
RegisterCall(flow_class) ==
    /\ pc = "startup"
    /\ Len(reg_log) < MaxRegs
    /\ flows' = register(flows, flow_class)
    /\ reg_log' = Append(reg_log, flow_class)
    /\ last_reg' = [cls |-> flow_class,
                    dup |-> \E i \in 1..Len(flows) : flows[i].name = flow_class.name,
                    before |-> flows,
                    result |-> Return(flow_class)]
    /\ UNCHANGED <<pc, last_match>>
    /\ UNCHANGED session_vars
    /\ UNCHANGED <<clock, server_vars>>

\* complaint texts handed to the registry
RegistryComplaints ==
    {Str("I have chest pain"), Str("Chest Pain and cough"), Str("bad cough"),
     Str("headache"), Str("HEART racing"), None}

\* one direct call of NodeRegistry.get_node_for_complaint
MatchCall(complaint) ==
    /\ pc = "startup"
    /\ last_match' = [complaint |-> complaint,
                      log |-> reg_log,
                      result |-> get_node_for_complaint(flows, complaint)]
    /\ UNCHANGED <<pc, flows, reg_log, last_reg>>
    /\ UNCHANGED session_vars
    /\ UNCHANGED <<clock, server_vars>>

----------------------------------------------------------------------------
(* Node factories: the node dicts handed to FlowManager.set_node.  A node  *)
(* is kept as its task message, the names of its functions and its pre-    *)
(* and post-actions.                                                       *)

Node(task, functions, pre_actions, post_actions) ==
    [task |-> task, functions |-> functions,
     pre_actions |-> pre_actions, post_actions |-> post_actions]

NoNode == [name |-> "none", task |-> "", functions |-> <<>>,
           pre_actions |-> <<>>, post_actions |-> <<>>]

create_entry_node ==
    Node("Start by introducing yourself as an automated assistant from the medical office. "
            \o "Explain that you're calling to gather some information before their upcoming appointment. "
            \o "Ask for their consent to collect health information.",
         <<"process_consent">>, <<>>, <<>>)

create_chief_complaint_node ==
    Node("Ask: 'Could you please tell me the main reason for your appointment?' "
            \o "After their response, ask about duration: 'How long have you been experiencing these symptoms?'",
         <<"collect_chief_complaint">>, <<>>, <<>>)

create_medical_history_node ==
    Node("Now I'd like to ask about your general medical history.",
         <<"collect_medical_history">>, <<>>, <<>>)

create_wrap_up_node ==
    Node("Thank the patient for their time and summarize the key information collected.",
         <<"finish_conversation">>, <<>>, <<>>)

\* a bug the factory could have: a post-action named after the call
create_end_call_node_tagged(message) ==
    Node("Say: '" \o message \o "'", <<>>, <<>>, <<[type |-> "end_call"]>>)

\* a bug the factory could have: the end node still offers a function
create_end_call_node_open(message) ==
    Node("Say: '" \o message \o "'", <<"finish_conversation">>, <<>>,
         <<[type |-> "end_conversation"]>>)

create_end_call_node(message) ==
    Node("Say: '" \o message \o "'", <<>>, <<>>, <<[type |-> "end_conversation"]>>)

\* a bug the factory could have: the alert does not carry the reason given
create_emergency_node_unspecified(emergency_reason) ==
    Node("Based on what you've told me, I need to transfer you to our medical staff immediately.",
         <<"handle_emergency">>,
         <<[type |-> "alert_staff", reason |-> Str("Unspecified emergency")]>>, <<>>)

create_emergency_node(emergency_reason) ==
    Node("Based on what you've told me, I need to transfer you to our medical staff immediately.",
         <<"handle_emergency">>,
         <<[type |-> "alert_staff", reason |-> emergency_reason]>>, <<>>)

\* SpecialtyNode.create_transition_node: the function only names the node to
\* continue to ("transition_to"), it has no handler and no callback
create_transition_node(flow_class, transition_message) ==
    Node("Say: '" \o transition_message \o "'",
         <<"continue_to_" \o lower(flow_class.name)>>, <<>>, <<>>)

\* ChestPainNode.create_assessment_node / RespiratoryNode.create_assessment_node
create_assessment_node(flow_class) ==
    IF flow_class.name = "ChestPainNode"
    THEN Node("Carefully assess chest pain characteristics.",
              <<"assess_chest_pain">>, <<>>, <<>>)
    ELSE Node("Continue gathering information about their breathing symptoms naturally.",
              <<"assess_respiratory">>, <<>>, <<>>)

----------------------------------------------------------------------------
(* The flow manager, as the callbacks use it *)

\* flow_manager.state[key] = value
Put(st, key, value) ==
    [k \in DOMAIN st \cup {key} |-> IF k = key THEN value ELSE st[k]]

Named(name, node) == [name |-> name] @@ node

\* await flow_manager.set_node(name, node), once or several times in a row
SetNodes(nodes) ==
    /\ current_node' = nodes[Len(nodes)]
    /\ installed' = installed \o nodes

\* the callback raised before it installed anything
NoSetNode == UNCHANGED <<current_node, installed>>

Offers(fn) ==
    /\ pc = "session"
    /\ \E i \in 1..Len(current_node.functions) : current_node.functions[i] = fn

\* str() of a value inside an f-string (str, None, bool, a one-digit int)
Format(v) ==
    IF v.t = "str" THEN v.s
    ELSE IF v.t = "None" THEN "None"
    ELSE IF v.t = "bool" THEN (IF v.b THEN "True" ELSE "False")
    ELSE SubSeq("0123456789", v.n + 1, v.n + 1)

----------------------------------------------------------------------------
(* bot.py *)

\* on_first_participant_joined: initialize the flow manager, install the
\* entry node as "initial"
Join ==
    /\ pc = "startup"
    /\ pc' = "session"
    /\ state' = <<>>
    /\ SetNodes(<<Named("initial", create_entry_node)>>)
    /\ UNCHANGED <<last_call, error, specialty_flow>>
    /\ UNCHANGED registry_vars
    /\ UNCHANGED <<clock, server_vars>>

----------------------------------------------------------------------------
(* general_nodes/entry.py *)

ConsentArgs ==
    {[consent |-> Bool(TRUE)], [consent |-> Bool(FALSE)],
     [consent |-> Str("True")], [consent |-> Str("yes")],
     [consent |-> Num(1)], [consent |-> None], <<>>}

\* a bug the handler could have: the truth value of the argument is taken
verify_consent_truthy(args) ==
    LET consent == Get(args, "consent", Str(""))
        consent_given ==
            IF consent.t = "bool" THEN consent.b
            ELSE IF consent.t = "str" THEN consent.s # ""
            ELSE IF consent.t = "num" THEN consent.n # 0
            ELSE FALSE
    IN  Return([status |-> "success", consent_given |-> consent_given])

verify_consent(args) ==
    LET consent == Get(args, "consent", Str(""))
        consent_given ==
            IF consent.t = "bool" THEN consent.b
            ELSE IF consent.t = "str" THEN lower(consent.s) = "true"
            ELSE FALSE
    IN  Return([status |-> "success", consent_given |-> consent_given])

\* a bug the callback could have: the consent is not recorded
handle_consent_transition_unrecorded(args, result) ==
    /\ error' = "none"
    /\ UNCHANGED state
    /\ IF result.consent_given
       THEN SetNodes(<<Named("chief_complaint", create_chief_complaint_node)>>)
       ELSE SetNodes(<<Named("end_call", create_end_call_node(
                "I understand. I'll have a staff member contact you directly. Thank you for your time."))>>)

\* a bug the callback could have: the two branches swapped
handle_consent_transition_swapped(args, result) ==
    /\ error' = "none"
    /\ IF ~result.consent_given
       THEN /\ state' = Put(state, "consent_given", TRUE)
            /\ SetNodes(<<Named("chief_complaint", create_chief_complaint_node)>>)
       ELSE /\ UNCHANGED state
            /\ SetNodes(<<Named("end_call", create_end_call_node(
                "I understand. I'll have a staff member contact you directly. Thank you for your time."))>>)

handle_consent_transition(args, result) ==
    /\ error' = "none"
    /\ IF result.consent_given
       THEN /\ state' = Put(state, "consent_given", TRUE)
            /\ SetNodes(<<Named("chief_complaint", create_chief_complaint_node)>>)
       ELSE /\ UNCHANGED state
            /\ SetNodes(<<Named("end_call", create_end_call_node(
                "I understand. I'll have a staff member contact you directly. Thank you for your time."))>>)

\* the LLM layer calls process_consent: the handler runs, then the transition
\* callback on its result (\E r \in {e} names the value of e)
ProcessConsent(args) ==
    /\ Offers("process_consent")
    /\ \E r \in {verify_consent(args)} :
           /\ last_call' = [fn |-> "process_consent", args |-> args,
                            result |-> r]
           /\ handle_consent_transition(args, r.val)
    /\ UNCHANGED <<pc, specialty_flow>>
    /\ UNCHANGED registry_vars
    /\ UNCHANGED <<clock, server_vars>>

----------------------------------------------------------------------------
(* general_nodes/chief_complaint.py *)

ComplaintArgs ==
    {[complaint |-> Str("I have chest pain"), duration |-> Str("2 days")],
     [complaint |-> Str("headache"), duration |-> Str("2 days")],
     [complaint |-> Str("Chest Pain and cough"), duration |-> Str("a week")],
     [complaint |-> Str("bad cough")],
     [duration |-> Str("2 days")],
     [complaint |-> None, duration |-> Str("2 days")],
     [complaint |-> Str("shortness of breath"), duration |-> Str("3 hours")],
     [complaint |-> Str("ANGINA"), duration |-> Num(3)],
     [complaint |-> Str("sore throat"), duration |-> None],
     [complaint |-> Str("stomach ache"), duration |-> Str("since yesterday")]}

collect_chief_complaint(args) ==
    Return([status |-> "success",
            complaint |-> Get(args, "complaint", Str("")),
            duration |-> Get(args, "duration", Str(""))])

transition_message(result) ==
    "I understand you've been experiencing " \o Format(result.complaint)
        \o " for " \o Format(result.duration) \o ". "
        \o "I'd like to ask a few more specific questions about this to help the doctor "
        \o "better prepare for your appointment."

\* a bug setup could have: the assessment node alone is installed
setup_assessment_only(flow_class, message) ==
    \E name \in {lower(flow_class.name)} :
        SetNodes(<<Named(name \o "_assessment", create_assessment_node(flow_class))>>)

\* SpecialtyNode.setup: set_node(<name>_intro, transition node), then at once
\* set_node(<name>_assessment, assessment node)
setup(flow_class, message) ==
    \E name \in {lower(flow_class.name)} :
        SetNodes(<<Named(name \o "_intro", create_transition_node(flow_class, message)),
                   Named(name \o "_assessment", create_assessment_node(flow_class))>>)

\* the intro and assessment nodes of a class when its triggers match
nodes_if_matching(flow_class, complaint_lower, message) ==
    IF any_trigger(flow_class, complaint_lower)
    THEN <<Named(lower(flow_class.name) \o "_intro",
                 create_transition_node(flow_class, message)),
           Named(lower(flow_class.name) \o "_assessment",
                 create_assessment_node(flow_class))>>
    ELSE <<>>

\* a bug the callback could have: every matching specialty is set up, not
\* the one the registry returned
handle_complaint_transition_all_matches(args, result) ==
    \E found \in {get_node_for_complaint(flows, result.complaint)} :
        /\ state' = Put(state, "chief_complaint",
                        [complaint |-> result.complaint, duration |-> result.duration])
        /\ IF Raised(found)
           THEN /\ error' = found.exc
                /\ NoSetNode
                /\ UNCHANGED specialty_flow
           ELSE /\ error' = "none"
                /\ specialty_flow' = IF found.val = None THEN "None" ELSE found.val.name
                /\ IF found.val # None
                   THEN \E complaint_lower \in {lower(result.complaint.s)} :
                          SetNodes(
                            (IF Len(flows) >= 1
                             THEN nodes_if_matching(flows[1], complaint_lower,
                                                    transition_message(result))
                             ELSE <<>>)
                            \o (IF Len(flows) >= 2
                                THEN nodes_if_matching(flows[2], complaint_lower,
                                                       transition_message(result))
                                ELSE <<>>))
                   ELSE SetNodes(<<Named("medical_history", create_medical_history_node)>>)

\* a bug the callback could have: the chest-pain flow is set up whatever the
\* registry returned
handle_complaint_transition_falls_through(args, result) ==
    \E found \in {get_node_for_complaint(flows, result.complaint)} :
        /\ state' = Put(state, "chief_complaint",
                        [complaint |-> result.complaint, duration |-> result.duration])
        /\ IF Raised(found)
           THEN /\ error' = found.exc
                /\ NoSetNode
                /\ UNCHANGED specialty_flow
           ELSE /\ error' = "none"
                /\ specialty_flow' = IF found.val = None THEN "None" ELSE found.val.name
                /\ SetNodes(<<Named("chestpainnode_intro",
                                    create_transition_node(ChestPainNode, transition_message(result))),
                              Named("chestpainnode_assessment",
                                    create_assessment_node(ChestPainNode))>>)

\* the topic is stored first; the registry lookup raises on a complaint that
\* is no str, and the callback ends there
handle_complaint_transition(args, result) ==
    \E found \in {get_node_for_complaint(flows, result.complaint)} :
        /\ state' = Put(state, "chief_complaint",
                        [complaint |-> result.complaint, duration |-> result.duration])
        /\ IF Raised(found)
           THEN /\ error' = found.exc
                /\ NoSetNode
                /\ UNCHANGED specialty_flow
           ELSE /\ error' = "none"
                /\ specialty_flow' = IF found.val = None THEN "None" ELSE found.val.name
                /\ IF found.val # None
                   THEN setup(found.val, transition_message(result))
                   ELSE SetNodes(<<Named("medical_history", create_medical_history_node)>>)

CollectChiefComplaint(args) ==
    /\ Offers("collect_chief_complaint")
    /\ \E r \in {collect_chief_complaint(args)} :
           /\ last_call' = [fn |-> "collect_chief_complaint", args |-> args, result |-> r]
           /\ handle_complaint_transition(args, r.val)
    /\ UNCHANGED pc
    /\ UNCHANGED registry_vars
    /\ UNCHANGED <<clock, server_vars>>

----------------------------------------------------------------------------
(* Emergency detection, shared shape of assess_chest_pain and              *)
(* assess_respiratory                                                      *)

\* any(indicator in text for indicator in emergency_indicators)
any_indicator(indicators, text) ==
    \E k \in 1..Len(indicators) : Contains(indicators[k], text)

\* any(indicator in symptom.lower() for symptom in items for indicator in
\* emergency_indicators): stops at the first hit, raises at the first
\* symptom before it that has no lower()
RECURSIVE scan_symptoms(_, _)
scan_symptoms(items, indicators) ==
    IF items = <<>> THEN Return(FALSE)
    ELSE IF Head(items).t # "str" THEN Raise("AttributeError")
    ELSE IF any_indicator(indicators, lower(Head(items).s)) THEN Return(TRUE)
    ELSE scan_symptoms(Tail(items), indicators)

\* a bug the detection could have: the symptoms are never looked at
is_emergency_text_only(text, associated_symptoms, indicators) ==
    Return(any_indicator(indicators, text))

\* `a or b`: the symptoms are only looked at when the text has no indicator;
\* a str is iterated by character, None and numbers are not iterable
is_emergency(text, associated_symptoms, indicators) ==
    IF any_indicator(indicators, text) THEN Return(TRUE)
    ELSE IF associated_symptoms.t = "list"
         THEN scan_symptoms(associated_symptoms.l, indicators)
    ELSE IF associated_symptoms.t = "str"
         THEN scan_symptoms([i \in 1..Len(associated_symptoms.s) |->
                                Str(SubSeq(associated_symptoms.s, i, i))], indicators)
    ELSE Raise("TypeError")

\* attribute access on a dict (a TypedDict call returns a plain dict):
\* result.pain_location raises AttributeError
dict_attr(d, attr) == Raise("AttributeError")

----------------------------------------------------------------------------
(* specialty_nodes/chest_pain.py *)

ChestPainIndicators ==
    <<"severe", "crushing", "extremely painful", "unbearable",
      "difficulty breathing", "shortness of breath", "sweating", "nausea",
      "radiating to arm">>

ChestPainArgs ==
    {[pain_location |-> Str("left side"), pain_quality |-> Str("pressure"),
      severity |-> Str("severe crushing pressure")],
     [pain_location |-> Str("center"), pain_quality |-> Str("dull"),
      severity |-> Str("3")],
     [severity |-> Str("4"), associated_symptoms |-> List(<<Str("fatigue"), Str("Nausea")>>)],
     [severity |-> Str("4"), associated_symptoms |-> List(<<Str("fatigue")>>)],
     <<>>,
     [severity |-> Num(8)],
     [severity |-> Str("2"), associated_symptoms |-> List(<<None>>)],
     [severity |-> Str("SEVERE"), associated_symptoms |-> None]}

assess_chest_pain(args) ==
    LET sev == Get(args, "severity", Str(""))
        associated_symptoms == Get(args, "associated_symptoms", List(<<>>))
    IN  IF sev.t # "str" THEN Raise("AttributeError")
        ELSE LET severity == lower(sev.s)
                 e == is_emergency(severity, associated_symptoms, ChestPainIndicators)
             IN  IF Raised(e) THEN e
                 ELSE Return(
                    [status |-> "success",
                     pain_location |-> Get(args, "pain_location", Str("")),
                     pain_quality |-> Get(args, "pain_quality", Str("")),
                     radiation |-> Get(args, "radiation", Str("")),
                     associated_symptoms |-> associated_symptoms,
                     severity |-> Str(severity),
                     aggravating_factors |-> Get(args, "aggravating_factors", List(<<>>)),
                     relieving_factors |-> Get(args, "relieving_factors", List(<<>>)),
                     requires_emergency_routing |-> e.val,
                     emergency_reason |->
                        IF e.val THEN Str("Potential cardiac emergency detected") ELSE None])

\* the callback reads its result by attribute (result.pain_location), which
\* a dict does not have: it raises while building the value to store, before
\* flow_manager.state is written and before any set_node
handle_chest_pain_assessment(args, result) ==
    LET location == dict_attr(result, "pain_location")
    IN  IF Raised(location)
        THEN /\ error' = location.exc
             /\ UNCHANGED state
             /\ NoSetNode
        ELSE /\ error' = "none"
             /\ state' = Put(state, "chest_pain_assessment",
                    [location |-> location.val,
                     quality |-> dict_attr(result, "pain_quality").val,
                     radiation |-> dict_attr(result, "radiation").val,
                     associated_symptoms |-> dict_attr(result, "associated_symptoms").val,
                     severity |-> dict_attr(result, "severity").val,
                     aggravating_factors |-> dict_attr(result, "aggravating_factors").val,
                     relieving_factors |-> dict_attr(result, "relieving_factors").val])
             /\ IF dict_attr(result, "requires_emergency_routing").val
                THEN SetNodes(<<Named("emergency",
                        create_emergency_node(dict_attr(result, "emergency_reason").val))>>)
                ELSE SetNodes(<<Named("medical_history", create_medical_history_node)>>)

\* a handler that raises ends the call: no callback runs
HandlerRaised(r) ==
    /\ error' = r.exc
    /\ UNCHANGED state
    /\ NoSetNode

AssessChestPain(args) ==
    /\ Offers("assess_chest_pain")
    /\ \E r \in {assess_chest_pain(args)} :
           /\ last_call' = [fn |-> "assess_chest_pain", args |-> args, result |-> r]
           /\ IF Raised(r) THEN HandlerRaised(r)
              ELSE handle_chest_pain_assessment(args, r.val)
    /\ UNCHANGED <<pc, specialty_flow>>
    /\ UNCHANGED registry_vars
    /\ UNCHANGED <<clock, server_vars>>

\* severity texts and symptom lists for a direct call of the handler
ChestPainTexts ==
    {"", "3", "Severe", "CRUSHING weight", "mild ache", "Radiating To Arm"}
ChestPainSymptoms == {"fatigue", "Nausea", "SWEATING at night", "cough", "Short of breath"}

ChestPainDetectionArgs ==
    {[severity |-> Str(text), associated_symptoms |-> List(symptoms)] :
        text \in ChestPainTexts,
        symptoms \in UNION {[1..n -> {Str(x) : x \in ChestPainSymptoms}] : n \in 0..MaxSymptoms}}
    \cup {[severity |-> Str(text)] : text \in ChestPainTexts}
    \cup {[associated_symptoms |-> List(<<Str(x)>>)] : x \in ChestPainSymptoms}

\* a direct call of assess_chest_pain, outside a session: the first call made
AssessChestPainCall(args) ==
    /\ pc = "startup"
    /\ last_call.fn = "none"
    /\ last_call' = [fn |-> "assess_chest_pain", args |-> args,
                     result |-> assess_chest_pain(args)]
    /\ UNCHANGED <<pc, current_node, state, installed, error, specialty_flow>>
    /\ UNCHANGED registry_vars
    /\ UNCHANGED <<clock, server_vars>>

----------------------------------------------------------------------------
(* specialty_nodes/respiratory.py *)

RespiratoryIndicators ==
    <<"severe difficulty", "can't breathe", "unable to breathe", "blue lips",
      "chest pain", "dizzy", "confused">>

RespiratoryArgs ==
    {[breathing_difficulty |-> Str("I Can't Breathe at night"), cough_type |-> Str("dry"),
      cough_duration |-> Str("2 days")],
     [breathing_difficulty |-> Str("mild, on stairs"), cough_type |-> Str("wet"),
      cough_duration |-> Str("a week"), sputum_presence |-> Bool(TRUE)],
     [breathing_difficulty |-> Str("mild"),
      associated_symptoms |-> List(<<Str("fever"), Str("Blue lips")>>)],
     [breathing_difficulty |-> Str("mild"), associated_symptoms |-> List(<<Str("fever")>>)],
     <<>>,
     [breathing_difficulty |-> None],
     [breathing_difficulty |-> Str("none"), associated_symptoms |-> List(<<Num(3)>>)],
     [breathing_difficulty |-> Str("DIZZY when walking"), associated_symptoms |-> None]}

\* a bug the handler could have: the reason is given whatever the flag
assess_respiratory_always_reason(args) ==
    LET difficulty == Get(args, "breathing_difficulty", Str(""))
        associated_symptoms == Get(args, "associated_symptoms", List(<<>>))
    IN  IF difficulty.t # "str" THEN Raise("AttributeError")
        ELSE LET breathing_difficulty == lower(difficulty.s)
                 e == is_emergency(breathing_difficulty, associated_symptoms,
                                   RespiratoryIndicators)
             IN  IF Raised(e) THEN e
                 ELSE Return(
                    [status |-> "success",
                     breathing_difficulty |-> Str(breathing_difficulty),
                     cough_type |-> Get(args, "cough_type", Str("")),
                     cough_duration |-> Get(args, "cough_duration", Str("")),
                     sputum_presence |-> Get(args, "sputum_presence", Bool(FALSE)),
                     sputum_description |-> Get(args, "sputum_description", Str("")),
                     associated_symptoms |-> associated_symptoms,
                     requires_emergency |-> e.val,
                     emergency_reason |-> Str("Severe respiratory distress detected")])

assess_respiratory(args) ==
    LET difficulty == Get(args, "breathing_difficulty", Str(""))
        associated_symptoms == Get(args, "associated_symptoms", List(<<>>))
    IN  IF difficulty.t # "str" THEN Raise("AttributeError")
        ELSE LET breathing_difficulty == lower(difficulty.s)
                 e == is_emergency(breathing_difficulty, associated_symptoms,
                                   RespiratoryIndicators)
             IN  IF Raised(e) THEN e
                 ELSE Return(
                    [status |-> "success",
                     breathing_difficulty |-> Str(breathing_difficulty),
                     cough_type |-> Get(args, "cough_type", Str("")),
                     cough_duration |-> Get(args, "cough_duration", Str("")),
                     sputum_presence |-> Get(args, "sputum_presence", Bool(FALSE)),
                     sputum_description |-> Get(args, "sputum_description", Str("")),
                     associated_symptoms |-> associated_symptoms,
                     requires_emergency |-> e.val,
                     emergency_reason |->
                        IF e.val THEN Str("Severe respiratory distress detected") ELSE None])

\* a bug the callback could have: an escalation leaves before the assessment
\* is stored
handle_respiratory_assessment_unstored(args, result) ==
    /\ error' = "none"
    /\ IF result.requires_emergency
       THEN /\ UNCHANGED state
            /\ SetNodes(<<Named("emergency", create_emergency_node(result.emergency_reason))>>)
       ELSE /\ state' = Put(state, "respiratory_assessment",
                    [breathing_difficulty |-> result.breathing_difficulty,
                     cough_type |-> result.cough_type,
                     cough_duration |-> result.cough_duration,
                     sputum_presence |-> result.sputum_presence,
                     sputum_description |-> result.sputum_description,
                     associated_symptoms |-> result.associated_symptoms])
            /\ SetNodes(<<Named("medical_history", create_medical_history_node)>>)

\* a bug the callback could have: the assessment is stored over the chief
\* complaint
handle_respiratory_assessment_clobbers(args, result) ==
    /\ error' = "none"
    /\ state' = Put(state, "chief_complaint",
            [breathing_difficulty |-> result.breathing_difficulty,
             cough_type |-> result.cough_type,
             cough_duration |-> result.cough_duration,
             sputum_presence |-> result.sputum_presence,
             sputum_description |-> result.sputum_description,
             associated_symptoms |-> result.associated_symptoms])
    /\ IF result.requires_emergency
       THEN SetNodes(<<Named("emergency", create_emergency_node(result.emergency_reason))>>)
       ELSE SetNodes(<<Named("medical_history", create_medical_history_node)>>)

handle_respiratory_assessment(args, result) ==
    /\ error' = "none"
    /\ state' = Put(state, "respiratory_assessment",
            [breathing_difficulty |-> result.breathing_difficulty,
             cough_type |-> result.cough_type,
             cough_duration |-> result.cough_duration,
             sputum_presence |-> result.sputum_presence,
             sputum_description |-> result.sputum_description,
             associated_symptoms |-> result.associated_symptoms])
    /\ IF result.requires_emergency
       THEN SetNodes(<<Named("emergency", create_emergency_node(result.emergency_reason))>>)
       ELSE SetNodes(<<Named("medical_history", create_medical_history_node)>>)

AssessRespiratory(args) ==
    /\ Offers("assess_respiratory")
    /\ \E r \in {assess_respiratory(args)} :
           /\ last_call' = [fn |-> "assess_respiratory", args |-> args, result |-> r]
           /\ IF Raised(r) THEN HandlerRaised(r)
              ELSE handle_respiratory_assessment(args, r.val)
    /\ UNCHANGED <<pc, specialty_flow>>
    /\ UNCHANGED registry_vars
    /\ UNCHANGED <<clock, server_vars>>

\* descriptions and symptom lists for a direct call of the handler
RespiratoryTexts ==
    {"", "mild", "I Can't Breathe", "SEVERE DIFFICULTY at night", "severe", "a bit Dizzy"}
RespiratorySymptoms == {"fever", "Blue Lips", "Chest Pain", "wheezing", "confusion"}

RespiratoryDetectionArgs ==
    {[breathing_difficulty |-> Str(text), associated_symptoms |-> List(symptoms)] :
        text \in RespiratoryTexts,
        symptoms \in UNION {[1..n -> {Str(x) : x \in RespiratorySymptoms}] : n \in 0..MaxSymptoms}}
    \cup {[breathing_difficulty |-> Str(text)] : text \in RespiratoryTexts}
    \cup {[associated_symptoms |-> List(<<Str(x)>>)] : x \in RespiratorySymptoms}

\* a direct call of assess_respiratory, outside a session: the first call made
AssessRespiratoryCall(args) ==
    /\ pc = "startup"
    /\ last_call.fn = "none"
    /\ last_call' = [fn |-> "assess_respiratory", args |-> args,
                     result |-> assess_respiratory(args)]
    /\ UNCHANGED <<pc, current_node, state, installed, error, specialty_flow>>
    /\ UNCHANGED registry_vars
    /\ UNCHANGED <<clock, server_vars>>

----------------------------------------------------------------------------
(* general_nodes/emergency.py *)

\* values of datetime.now().isoformat()
MaxClock == 2
Timestamps == 1..MaxClock

EmergencyArgs ==
    {<<>>,
     [emergency_reason |-> Str("Severe respiratory distress detected")],
     [emergency_reason |-> Str("patient feels dizzy")]}

\* a bug the node could have: its handler is the handle_emergency of
\* shared_handlers/handlers.py, whose result carries datetime.now()
handle_emergency_shared(args) ==
    Return([status |-> "success",
            emergency_reason |-> Get(args, "emergency_reason", Str("Unspecified emergency")),
            timestamp |-> clock])

\* the handle_emergency defined in emergency.py itself, which replaces the
\* imported one of shared_handlers
handle_emergency(args) ==
    Return([status |-> "success",
            emergency_reason |-> Get(args, "emergency_reason", Str("Unspecified emergency"))])

\* a bug the callback could have: the session is wrapped up as after the intake
handle_emergency_transition_to_wrap_up(args, result, now) ==
    /\ error' = "none"
    /\ state' = Put(state, "emergency",
                    [reason |-> result.emergency_reason, timestamp |-> now])
    /\ SetNodes(<<Named("wrap_up", create_wrap_up_node)>>)

\* a bug the callback could have: the record is written and no node installed
handle_emergency_transition_stays(args, result, now) ==
    /\ error' = "none"
    /\ state' = Put(state, "emergency",
                    [reason |-> result.emergency_reason, timestamp |-> now])
    /\ NoSetNode

\* a bug the callback could have: the intake goes on after the escalation
handle_emergency_transition_to_history(args, result, now) ==
    /\ error' = "none"
    /\ state' = Put(state, "emergency",
                    [reason |-> result.emergency_reason, timestamp |-> now])
    /\ SetNodes(<<Named("medical_history", create_medical_history_node)>>)

handle_emergency_transition(args, result, now) ==
    /\ error' = "none"
    /\ state' = Put(state, "emergency",
                    [reason |-> result.emergency_reason, timestamp |-> now])
    /\ SetNodes(<<Named("end_call", create_end_call_node(
            "Please stay on the line while I transfer you to our medical staff."))>>)

HandleEmergency(args) ==
    /\ Offers("handle_emergency")
    /\ \E r \in {handle_emergency(args)} :
           /\ last_call' = [fn |-> "handle_emergency", args |-> args, result |-> r]
           /\ \E now \in Timestamps :
                 /\ clock' = now
                 /\ handle_emergency_transition(args, r.val, now)
    /\ UNCHANGED <<pc, specialty_flow>>
    /\ UNCHANGED registry_vars
    /\ UNCHANGED server_vars

----------------------------------------------------------------------------
(* general_nodes/medical_history.py *)

MedicalHistoryArgs ==
    {<<>>,
     [conditions |-> List(<<Str("asthma")>>), medications |-> List(<<>>),
      allergies |-> List(<<Str("penicillin")>>)],
     [conditions |-> List(<<>>), medications |-> List(<<>>),
      allergies |-> List(<<>>), surgeries |-> List(<<>>)],
     [conditions |-> List(<<Str("diabetes")>>),
      medications |-> List(<<Dict([name |-> Str("metformin"), dosage |-> Str("500 mg"),
                                   frequency |-> Str("twice a day")])>>),
      allergies |-> List(<<>>), surgeries |-> List(<<Str("appendectomy")>>)],
     [conditions |-> None]}

\* a bug the handler could have: args["conditions"] in place of args.get(...)
collect_medical_history_strict(args) ==
    IF {"conditions", "medications", "allergies", "surgeries"} \subseteq DOMAIN args
    THEN Return([status |-> "success",
                 conditions |-> args.conditions, medications |-> args.medications,
                 allergies |-> args.allergies, surgeries |-> args.surgeries])
    ELSE Raise("KeyError")

collect_medical_history(args) ==
    Return([status |-> "success",
            conditions |-> Get(args, "conditions", List(<<>>)),
            medications |-> Get(args, "medications", List(<<>>)),
            allergies |-> Get(args, "allergies", List(<<>>)),
            surgeries |-> Get(args, "surgeries", List(<<>>))])

\* a bug the callback could have: an empty history ends the session
handle_medical_history_transition_skips_empty(args, result) ==
    /\ error' = "none"
    /\ state' = Put(state, "medical_history",
            [conditions |-> result.conditions, medications |-> result.medications,
             allergies |-> result.allergies, surgeries |-> result.surgeries])
    /\ IF result.conditions = List(<<>>) /\ result.medications = List(<<>>)
          /\ result.allergies = List(<<>>) /\ result.surgeries = List(<<>>)
       THEN SetNodes(<<Named("end_call", create_end_call_node("Thank you for your time. Goodbye!"))>>)
       ELSE SetNodes(<<Named("wrap_up", create_wrap_up_node)>>)

handle_medical_history_transition(args, result) ==
    /\ error' = "none"
    /\ state' = Put(state, "medical_history",
            [conditions |-> result.conditions, medications |-> result.medications,
             allergies |-> result.allergies, surgeries |-> result.surgeries])
    /\ SetNodes(<<Named("wrap_up", create_wrap_up_node)>>)

CollectMedicalHistory(args) ==
    /\ Offers("collect_medical_history")
    /\ \E r \in {collect_medical_history(args)} :
           /\ last_call' = [fn |-> "collect_medical_history", args |-> args, result |-> r]
           /\ handle_medical_history_transition(args, r.val)
    /\ UNCHANGED <<pc, specialty_flow>>
    /\ UNCHANGED registry_vars
    /\ UNCHANGED <<clock, server_vars>>

----------------------------------------------------------------------------
(* general_nodes/wrap_up.py *)

\* a bug the callback could have: the call is noted in the session state
handle_wrap_up_transition_records(args, result) ==
    /\ error' = "none"
    /\ state' = Put(state, "wrap_up", TRUE)
    /\ SetNodes(<<Named("end_call", create_end_call_node("Thank you for your time. Goodbye!"))>>)

handle_wrap_up_transition(args, result) ==
    /\ error' = "none"
    /\ UNCHANGED state
    /\ SetNodes(<<Named("end_call", create_end_call_node("Thank you for your time. Goodbye!"))>>)

\* finish_conversation has no handler: the callback runs on the call alone
FinishConversation ==
    /\ Offers("finish_conversation")
    /\ last_call' = [fn |-> "finish_conversation", args |-> <<>>, result |-> Return(None)]
    /\ handle_wrap_up_transition(<<>>, None)
    /\ UNCHANGED <<pc, specialty_flow>>
    /\ UNCHANGED registry_vars
    /\ UNCHANGED <<clock, server_vars>>

----------------------------------------------------------------------------
(* Process startup *)

\* The top level of chest_pain.py / respiratory.py, run when the module is
\* imported: `from .registry import FlowRegistry` names a class registry.py
\* does not define (it defines NodeRegistry), so the import raises
\* ImportError before the class statement and its decorator are reached.
\* Nothing is registered and the importing process ends.
LoadSpecialtyModule(flow_class) ==
    /\ pc = "startup"
    /\ pc' = "crashed"
    /\ error' = "ImportError"
    /\ UNCHANGED registry_vars
    /\ UNCHANGED <<clock, server_vars>>
    /\ UNCHANGED <<current_node, state, installed, last_call, specialty_flow>>

----------------------------------------------------------------------------
(* Handlers called directly, as functions of raw_args *)

\* the dict with the keys of S only
Restrict(args, S) == [k \in S |-> args[k]]

\* a well-formed call with any subset of its fields missing
Subrecords(args) == {Restrict(args, S) : S \in SUBSET DOMAIN args}

FullConsentArgs == [consent |-> Bool(TRUE)]
FullComplaintArgs == [complaint |-> Str("bad cough"), duration |-> Str("2 days")]
FullChestPainArgs ==
    [pain_location |-> Str("center"), pain_quality |-> Str("Dull"),
     radiation |-> Str("none"), associated_symptoms |-> List(<<Str("fatigue")>>),
     severity |-> Str("Mild, 3"), aggravating_factors |-> List(<<Str("stairs")>>),
     relieving_factors |-> List(<<Str("rest")>>)]
FullRespiratoryArgs ==
    [breathing_difficulty |-> Str("Mild"), cough_type |-> Str("dry"),
     cough_duration |-> Str("a week"), sputum_presence |-> Bool(TRUE),
     sputum_description |-> Str("clear"), associated_symptoms |-> List(<<Str("fever")>>)]
FullMedicalHistoryArgs ==
    [conditions |-> List(<<Str("asthma")>>), medications |-> List(<<>>),
     allergies |-> List(<<Str("penicillin")>>), surgeries |-> List(<<Str("appendectomy")>>)]
FullEmergencyArgs == [emergency_reason |-> Str("patient feels dizzy")]

\* the "handler" of each function, by the function's name
Invoke(fn, args) ==
    IF fn = "process_consent" THEN verify_consent(args)
    ELSE IF fn = "collect_chief_complaint" THEN collect_chief_complaint(args)
    ELSE IF fn = "assess_chest_pain" THEN assess_chest_pain(args)
    ELSE IF fn = "assess_respiratory" THEN assess_respiratory(args)
    ELSE IF fn = "collect_medical_history" THEN collect_medical_history(args)
    ELSE handle_emergency(args)

\* a direct call of a handler other than the two assessments: the first call made
HandlerCall(fn, args) ==
    /\ pc = "startup"
    /\ last_call.fn = "none"
    /\ \E r \in {Invoke(fn, args)} :
           last_call' = [fn |-> fn, args |-> args, result |-> r]
    /\ UNCHANGED <<pc, current_node, state, installed, error, specialty_flow>>
    /\ UNCHANGED registry_vars
    /\ UNCHANGED <<clock, server_vars>>

VerifyConsentCall(args) == HandlerCall("process_consent", args)
CollectChiefComplaintCall(args) == HandlerCall("collect_chief_complaint", args)
CollectMedicalHistoryCall(args) == HandlerCall("collect_medical_history", args)
HandleEmergencyCall(args) == HandlerCall("handle_emergency", args)

\* the handler last called is called again with the same raw_args, at any
\* later time
RepeatCall ==
    /\ pc = "startup"
    /\ last_call.fn # "none"
    /\ \E r \in {Invoke(last_call.fn, last_call.args)} :
           last_call' = [last_call EXCEPT !.result = r]
    /\ \E now \in Timestamps : now >= clock /\ clock' = now
    /\ UNCHANGED <<pc, current_node, state, installed, error, specialty_flow>>
    /\ UNCHANGED registry_vars
    /\ UNCHANGED server_vars

----------------------------------------------------------------------------
(* server.py *)

MAX_BOTS_PER_ROOM == 1

\* the room_url query parameter: a room that exists, or none given
RoomParams == {Str("roomA"), Str("roomB"), None}

\* DailyRESTHelper.create_room: a room of its own for the request
CreatedRoom(r) == "created" \o SubSeq("123456789", r, r)

\* a bug the count could have: a bot that has exited still counts
num_bots_in_room_ever(room_url) ==
    Cardinality({pid \in 1..Len(bot_procs) : bot_procs[pid].room_url = room_url})

\* bots of bot_procs in the room whose poll() is None
num_bots_in_room(room_url) ==
    Cardinality({pid \in 1..Len(bot_procs) :
        bot_procs[pid].room_url = room_url /\ bot_procs[pid].poll = "None"})

\* start_agent up to `await get_token`: the room is taken or created, and
\* the request is refused when the room has its bot
StartAgentCheck(r, param) ==
    /\ requests[r].pc = "new"
    /\ \E room_url \in {IF param # None THEN param.s ELSE CreatedRoom(r)} :
           requests' = [requests EXCEPT ![r] =
                [pc |-> IF num_bots_in_room(room_url) >= MAX_BOTS_PER_ROOM
                        THEN "http_500_max_bots" ELSE "get_token",
                 room_url |-> room_url]]
    /\ UNCHANGED <<pc, clock, bot_procs>>
    /\ UNCHANGED registry_vars
    /\ UNCHANGED session_vars

\* start_agent from the return of get_token on: no token, or Popen and the
\* entry in bot_procs, or Popen raising
StartAgentSpawn(r, outcome) ==
    /\ requests[r].pc = "get_token"
    /\ IF outcome = "token"
       THEN /\ bot_procs' = Append(bot_procs,
                    [room_url |-> requests[r].room_url, poll |-> "None"])
            /\ requests' = [requests EXCEPT ![r].pc = "redirect"]
       ELSE /\ UNCHANGED bot_procs
            /\ requests' = [requests EXCEPT ![r].pc =
                    IF outcome = "no_token" THEN "http_500_no_token"
                    ELSE "http_500_subprocess"]
    /\ UNCHANGED <<pc, clock>>
    /\ UNCHANGED registry_vars
    /\ UNCHANGED session_vars

\* a bot process ends: its poll() is no longer None
BotExit(pid) ==
    /\ pid \in 1..Len(bot_procs)
    /\ bot_procs[pid].poll = "None"
    /\ bot_procs' = [bot_procs EXCEPT ![pid].poll = "exited"]
    /\ UNCHANGED <<pc, clock, requests>>
    /\ UNCHANGED registry_vars
    /\ UNCHANGED session_vars

----------------------------------------------------------------------------
(* Specifications *)

NoCall == [fn |-> "none"]

InitRegistry ==
    /\ pc = "startup"
    /\ flows = <<>>
    /\ reg_log = <<>>
    /\ last_reg = [cls |-> None, dup |-> FALSE, before |-> <<>>, result |-> Return(None)]
    /\ last_match = [complaint |-> None, log |-> <<>>, result |-> Return(None)]

InitSession ==
    /\ clock = 1
    /\ current_node = NoNode
    /\ state = <<>>
    /\ installed = <<>>
    /\ last_call = NoCall
    /\ error = "none"
    /\ specialty_flow = "unset"

InitServer ==
    /\ bot_procs = <<>>
    /\ requests = [r \in 1..MaxRequests |-> [pc |-> "new", room_url |-> ""]]

Init == InitRegistry /\ InitSession /\ InitServer

\* the registry as a library: any classes registered, any complaints looked up
NextRegistry ==
    \/ \E flow_class \in SourceClasses \cup FixtureClasses : RegisterCall(flow_class)
    \/ \E complaint \in RegistryComplaints : MatchCall(complaint)

SpecRegistry == Init /\ [][NextRegistry]_vars

\* one function call of the LLM layer on the current node
SessionStep ==
    \/ \E args \in ConsentArgs : ProcessConsent(args)
    \/ \E args \in ComplaintArgs : CollectChiefComplaint(args)
    \/ \E args \in ChestPainArgs : AssessChestPain(args)
    \/ \E args \in RespiratoryArgs : AssessRespiratory(args)
    \/ \E args \in EmergencyArgs : HandleEmergency(args)
    \/ \E args \in MedicalHistoryArgs : CollectMedicalHistory(args)
    \/ FinishConversation

\* sessions over a registry filled by NodeRegistry.register with the two
\* specialty classes of the repository, in any order
Next ==
    \/ \E flow_class \in SourceClasses : RegisterCall(flow_class)
    \/ Join
    \/ SessionStep

Spec == Init /\ [][Next]_vars

\* the same, with every function the current node offers eventually called
FairSpec == Spec /\ WF_vars(SessionStep)

\* the process as bot.py starts it: bot.py imports general_nodes.entry only,
\* no module calls register, and a specialty module cannot be imported
NextProgram ==
    \/ \E flow_class \in SourceClasses : LoadSpecialtyModule(flow_class)
    \/ Join
    \/ \E args \in ConsentArgs : ProcessConsent(args)
    \/ \E args \in ComplaintArgs : CollectChiefComplaint(args)
    \/ \E args \in MedicalHistoryArgs : CollectMedicalHistory(args)
    \/ FinishConversation

SpecProgram == Init /\ [][NextProgram]_vars

\* the two assessment handlers as functions of their arguments
NextDetection ==
    \/ \E args \in ChestPainDetectionArgs : AssessChestPainCall(args)
    \/ \E args \in RespiratoryDetectionArgs : AssessRespiratoryCall(args)

SpecDetection == Init /\ [][NextDetection]_vars

\* every handler called with any subset of its fields missing, and called again
NextHandlers ==
    \/ \E args \in Subrecords(FullConsentArgs) : VerifyConsentCall(args)
    \/ \E args \in Subrecords(FullComplaintArgs) : CollectChiefComplaintCall(args)
    \/ \E args \in Subrecords(FullChestPainArgs) : AssessChestPainCall(args)
    \/ \E args \in Subrecords(FullRespiratoryArgs) : AssessRespiratoryCall(args)
    \/ \E args \in Subrecords(FullMedicalHistoryArgs) : CollectMedicalHistoryCall(args)
    \/ \E args \in Subrecords(FullEmergencyArgs) : HandleEmergencyCall(args)
    \/ RepeatCall

SpecHandlers == Init /\ [][NextHandlers]_vars

\* the HTTP server: requests run start_agent, interleaved at its awaits
NextServer ==
    \/ \E r \in 1..MaxRequests, param \in RoomParams : StartAgentCheck(r, param)
    \/ \E r \in 1..MaxRequests, outcome \in {"token", "no_token", "popen_failed"} :
            StartAgentSpawn(r, outcome)
    \/ \E pid \in 1..Len(bot_procs) : BotExit(pid)

SpecServer == Init /\ [][NextServer]_vars

----------------------------------------------------------------------------
(* Properties *)

AssessmentCalls == {"assess_chest_pain", "assess_respiratory"}

\* the emergency flag of an assessment result, under either specialty's name
EmergencyFlag(result) ==
    IF "requires_emergency_routing" \in DOMAIN result
    THEN result.requires_emergency_routing
    ELSE result.requires_emergency

TextField(fn) == IF fn = "assess_chest_pain" THEN "severity" ELSE "breathing_difficulty"
TopicKey(fn) ==
    IF fn = "assess_chest_pain" THEN "chest_pain_assessment" ELSE "respiratory_assessment"
Indicators(fn) ==
    IF fn = "assess_chest_pain" THEN ChestPainIndicators ELSE RespiratoryIndicators

\* the arguments have the types the node's schema declares
WellTyped(fn, args) ==
    /\ TextField(fn) \in DOMAIN args => args[TextField(fn)].t = "str"
    /\ "associated_symptoms" \in DOMAIN args =>
          /\ args.associated_symptoms.t = "list"
          /\ \A i \in 1..Len(args.associated_symptoms.l) :
                args.associated_symptoms.l[i].t = "str"

\* an indicator keyword occurs, ignoring case, in the text field or in a symptom
HasKeyword(fn, args) ==
    \E k \in 1..Len(Indicators(fn)) :
        \/ /\ TextField(fn) \in DOMAIN args
           /\ Contains(Indicators(fn)[k], lower(args[TextField(fn)].s))
        \/ /\ "associated_symptoms" \in DOMAIN args
           /\ \E i \in 1..Len(args.associated_symptoms.l) :
                 Contains(Indicators(fn)[k], lower(args.associated_symptoms.l[i].s))

\* C1: once a specialty assessment handler (chest pain or respiratory) has
\* returned a result whose emergency flag is set, the node installed by that
\* call is the emergency node: after the call the current node is `emergency`,
\* with no other node installed in between.
C1_EmergencyInstalledNext ==
    (/\ last_call.fn \in AssessmentCalls
     /\ ~Raised(last_call.result)
     /\ EmergencyFlag(last_call.result.val))
    => /\ current_node.name = "emergency"
       /\ installed[Len(installed)].name = "emergency"

InstalledNames == {installed[i].name : i \in 1..Len(installed)}

\* no node name is installed twice
NoRevisit ==
    \A i, j \in 1..Len(installed) : installed[i].name = installed[j].name => i = j

\* nodes installed, the intro/assessment pair of a specialty counted once
LogicalStates ==
    Cardinality({i \in 1..Len(installed) :
        installed[i].name \notin {"chestpainnode_intro", "respiratorynode_intro"}})

\* C2: every session that starts at the entry node reaches the end node when
\* the current node's function keeps being called; no node is installed twice;
\* the path has at most 6 logical states, and exactly 2 when consent is declined.
C2_SessionTerminates ==
    /\ [](NoRevisit /\ LogicalStates <= 6)
    /\ []((Len(installed) >= 2 /\ installed[2].name = "end_call") => LogicalStates = 2)
    /\ (current_node.name = "initial") ~> (current_node.name = "end_call")

\* C3: for every specialty, a well-typed assessment call whose arguments
\* contain one of the specialty's emergency keywords returns the emergency
\* flag true, and its transition callback installs the emergency node, made
\* with a non-empty reason.
C3_KeywordEscalates ==
    (/\ last_call.fn \in AssessmentCalls
     /\ WellTyped(last_call.fn, last_call.args)
     /\ HasKeyword(last_call.fn, last_call.args))
    => /\ ~Raised(last_call.result)
       /\ EmergencyFlag(last_call.result.val)
       /\ current_node.name = "emergency"
       /\ Len(current_node.pre_actions) = 1
       /\ current_node.pre_actions[1].reason.t = "str"
       /\ Len(current_node.pre_actions[1].reason.s) > 0

\* C4: for every specialty, a well-typed assessment call whose arguments
\* contain no emergency keyword returns the emergency flag false, its
\* transition callback stores the result under the specialty's own topic key,
\* and the node installed next is medical_history.
C4_NoKeywordContinues ==
    (/\ last_call.fn \in AssessmentCalls
     /\ WellTyped(last_call.fn, last_call.args)
     /\ ~HasKeyword(last_call.fn, last_call.args))
    => /\ ~Raised(last_call.result)
       /\ ~EmergencyFlag(last_call.result.val)
       /\ TopicKey(last_call.fn) \in DOMAIN state
       /\ state[TopicKey(last_call.fn)].associated_symptoms
            = last_call.result.val.associated_symptoms
       /\ current_node.name = "medical_history"

TopicKeys ==
    {"chief_complaint", "chest_pain_assessment", "respiratory_assessment",
     "medical_history", "emergency"}

ConsentRefused ==
    /\ last_call.fn = "process_consent"
    /\ ~last_call.result.val.consent_given

\* C5: when consent is refused at the entry node, the next node installed is
\* the end node, which offers no function; the session state holds no topic
\* key and no consent flag set to true, then and in every later state of a
\* session whose second node is that end node.
C5_DeclineEndsSession ==
    /\ ConsentRefused =>
          /\ Len(installed) = 2
          /\ installed[2].name = "end_call"
          /\ current_node = installed[2]
          /\ current_node.functions = <<>>
    /\ (Len(installed) >= 2 /\ installed[2].name = "end_call") =>
          /\ Len(installed) = 2
          /\ DOMAIN state \cap TopicKeys = {}
          /\ "consent_given" \in DOMAIN state => state["consent_given"] # TRUE

\* consent was refused with an answer that is not the boolean false
C5_Declined ==
    /\ ConsentRefused
    /\ last_call.args = [consent |-> Str("yes")]
    /\ current_node.name = "end_call"

\* C6: in the process as it starts, a chief complaint "I have chest pain"
\* with duration "2 days" matches the chest-pain specialty, the intro node's
\* utterance contains both texts, and the chest-pain assessment node is
\* installed next.
C6_ChestPainEndToEnd ==
    (/\ last_call.fn = "collect_chief_complaint"
     /\ last_call.args = [complaint |-> Str("I have chest pain"), duration |-> Str("2 days")])
    => /\ specialty_flow = "ChestPainNode"
       /\ Len(installed) >= 2
       /\ installed[Len(installed) - 1].name = "chestpainnode_intro"
       /\ Contains("I have chest pain", installed[Len(installed) - 1].task)
       /\ Contains("2 days", installed[Len(installed) - 1].task)
       /\ current_node.name = "chestpainnode_assessment"

\* the identities passed to register in a log of register calls
LogNames(log) == {log[i].name : i \in 1..Len(log)}

\* the position of the first register call for an identity
FirstRegistered(log, name) ==
    CHOOSE i \in 1..Len(log) :
        /\ log[i].name = name
        /\ \A k \in 1..Len(log) : log[k].name = name => i <= k

\* the class an identity stands for: the one of its latest register call
Registered(log, name) ==
    log[CHOOSE i \in 1..Len(log) :
            /\ log[i].name = name
            /\ \A k \in 1..Len(log) : log[k].name = name => k <= i]

\* the identities with a trigger phrase that occurs in the lowered complaint
MatchingNames(log, complaint) ==
    {n \in LogNames(log) :
        \E j \in 1..Len(Registered(log, n).triggers) :
            Contains(Registered(log, n).triggers[j], lower(complaint.s))}

MatchesIgnoringCase(log, complaint) ==
    \E n \in LogNames(log) :
        \E j \in 1..Len(Registered(log, n).triggers) :
            Contains(lower(Registered(log, n).triggers[j]), lower(complaint.s))

\* C8: the lookup returns a specialty whenever a trigger phrase of a
\* registered entry occurs in the complaint ignoring letter case, and returns
\* nothing exactly when no trigger phrase does.
C8_CaseInsensitiveMatch ==
    last_match.complaint.t = "str"
    => /\ ~Raised(last_match.result)
       /\ (last_match.result.val = None)
            <=> ~MatchesIgnoringCase(last_match.log, last_match.complaint)

\* C9: registering an identity that is already in the registry fails with a
\* configuration error and leaves the registry as it was.
C9_DuplicateRegistrationFails ==
    last_reg.dup => (Raised(last_reg.result) /\ flows = last_reg.before)

SpecialtyNodeNames ==
    {"chestpainnode_intro", "chestpainnode_assessment",
     "respiratorynode_intro", "respiratorynode_assessment"}

\* the recorded complaint is a text in which no trigger phrase of a
\* registered class occurs
NoSpecialtyMatches ==
    /\ "chief_complaint" \in DOMAIN state
    /\ state["chief_complaint"].complaint.t = "str"
    /\ \A i \in 1..Len(flows) : \A j \in 1..Len(flows[i].triggers) :
          ~Contains(flows[i].triggers[j], lower(state["chief_complaint"].complaint.s))

\* C10: when the chief complaint matches no registered specialty, the node
\* installed right after chief_complaint is medical_history, no specialty
\* intro or assessment node is installed in the session, and the session
\* state never holds a specialty topic key.
C10_NoMatchGoesToHistory ==
    NoSpecialtyMatches
    => /\ specialty_flow = "None"
       /\ \E i \in 1..(Len(installed) - 1) :
             /\ installed[i].name = "chief_complaint"
             /\ installed[i + 1].name = "medical_history"
       /\ InstalledNames \cap SpecialtyNodeNames = {}
       /\ DOMAIN state \cap {"chest_pain_assessment", "respiratory_assessment"} = {}

\* a headache, with both specialties registered, at the end of the session
C10_HeadacheSession ==
    /\ NoSpecialtyMatches
    /\ state["chief_complaint"].complaint = Str("headache")
    /\ Len(flows) = 2
    /\ current_node.name = "end_call"
    /\ "medical_history" \in DOMAIN state

IntroNames == {"chestpainnode_intro", "respiratorynode_intro"}
AssessmentNames == {"chestpainnode_assessment", "respiratorynode_assessment"}

\* the intro node that belongs to an assessment node
PairedIntro(name) ==
    IF name = "chestpainnode_assessment" THEN "chestpainnode_intro"
    ELSE "respiratorynode_intro"

\* the complaint callback has just entered a specialty flow
EnteredSpecialty ==
    /\ last_call.fn = "collect_chief_complaint"
    /\ error = "none"
    /\ specialty_flow \notin {"unset", "None"}

\* C11: entering a specialty flow installs exactly two nodes, the specialty's
\* intro node and then its assessment node, with nothing between them; an
\* assessment node is only ever installed right after its own intro node, and
\* an intro node is always followed at once by its own assessment node.
C11_IntroThenAssessment ==
    /\ \A i \in 1..Len(installed) :
          /\ installed[i].name \in AssessmentNames =>
                /\ i > 1
                /\ installed[i - 1].name = PairedIntro(installed[i].name)
          /\ installed[i].name \in IntroNames =>
                /\ i < Len(installed)
                /\ installed[i + 1].name \in AssessmentNames
                /\ PairedIntro(installed[i + 1].name) = installed[i].name
    /\ EnteredSpecialty =>
          /\ Len(installed) = 4
          /\ installed[2].name = "chief_complaint"
          /\ installed[3].name = lower(specialty_flow) \o "_intro"
          /\ installed[4].name = lower(specialty_flow) \o "_assessment"
          /\ current_node = installed[4]

\* the respiratory flow was entered
C11_RespiratoryEntered ==
    /\ EnteredSpecialty
    /\ specialty_flow = "RespiratoryNode"
    /\ installed[3].name = "respiratorynode_intro"
    /\ installed[4].name = "respiratorynode_assessment"

\* C12: after the complaint callback has entered a specialty flow, and until
\* another function is called, the active node is that specialty's intro
\* node: the assessment node becomes active only once the intro node's
\* continue function has been invoked.
C12_IntroStaysActive ==
    EnteredSpecialty => current_node.name = lower(specialty_flow) \o "_intro"

\* C13: for each specialty and every well-typed text and symptom list, the
\* handler returns normally and its emergency flag is true exactly when one
\* of the specialty's indicator keywords occurs, ignoring case, in the text
\* field or in some element of associated_symptoms.
C13_DetectionPolicy ==
    (/\ last_call.fn \in AssessmentCalls
     /\ WellTyped(last_call.fn, last_call.args))
    => /\ ~Raised(last_call.result)
       /\ EmergencyFlag(last_call.result.val) <=> HasKeyword(last_call.fn, last_call.args)

\* a keyword in capitals in the second symptom only
C13_KeywordInSymptomOnly ==
    /\ last_call.fn = "assess_respiratory"
    /\ last_call.args = [breathing_difficulty |-> Str("mild"),
                         associated_symptoms |-> List(<<Str("fever"), Str("Blue Lips")>>)]
    /\ EmergencyFlag(last_call.result.val)

\* C14: every emergency node installed has one alert_staff pre-action whose
\* reason is a non-empty string, and when it was installed by an assessment
\* callback that reason is the emergency_reason of the handler's result.
C14_AlertCarriesReason ==
    /\ \A i \in 1..Len(installed) :
          installed[i].name = "emergency" =>
             /\ Len(installed[i].pre_actions) = 1
             /\ installed[i].pre_actions[1].type = "alert_staff"
             /\ installed[i].pre_actions[1].reason.t = "str"
             /\ Len(installed[i].pre_actions[1].reason.s) > 0
    /\ (last_call.fn \in AssessmentCalls /\ current_node.name = "emergency") =>
          current_node.pre_actions[1].reason = last_call.result.val.emergency_reason

\* the respiratory callback has installed the emergency node
C14_RespiratoryAlert ==
    /\ last_call.fn = "assess_respiratory"
    /\ current_node.name = "emergency"
    /\ current_node.pre_actions[1].reason = Str("Severe respiratory distress detected")

\* C15: the reason of the emergency record in the session state is the reason
\* the emergency node of the session was installed with.
C15_RecordCarriesReason ==
    "emergency" \in DOMAIN state =>
        \E i \in 1..Len(installed) :
            /\ installed[i].name = "emergency"
            /\ state["emergency"].reason = installed[i].pre_actions[1].reason

\* the value under a key of the session state is written or changed by a step
Written(key) ==
    /\ key \in DOMAIN state'
    /\ key \notin DOMAIN state \/ state'[key] # state[key]

\* C16: a step writes the emergency record only when there is none yet, as
\* the call of handle_emergency on the emergency node, in a session with no
\* end node installed so far, and that step installs the end node; once an
\* end node is installed the record is neither written nor changed nor removed.
C16_EmergencyRecordOnce ==
    /\ [][Written("emergency") =>
            /\ "emergency" \notin DOMAIN state
            /\ current_node.name = "emergency"
            /\ last_call'.fn = "handle_emergency"
            /\ "end_call" \notin InstalledNames
            /\ current_node'.name = "end_call"]_vars
    /\ [][("end_call" \in InstalledNames \/ "emergency" \in DOMAIN state) =>
            /\ ~Written("emergency")
            /\ "emergency" \in DOMAIN state => "emergency" \in DOMAIN state']_vars

\* the record was written on the way out of a respiratory escalation
C16_RecordWritten ==
    /\ "emergency" \in DOMAIN state
    /\ "respiratory_assessment" \in DOMAIN state
    /\ last_call.fn = "handle_emergency"
    /\ current_node.name = "end_call"

HoldTheLine == "Please stay on the line while I transfer you to our medical staff."

\* C17: an emergency node is either the current node or followed at once by
\* an end node that says the hold-the-line message; never by medical_history,
\* wrap_up or a specialty node.
C17_EmergencyLeadsToEnd ==
    \A i \in 1..Len(installed) :
        installed[i].name = "emergency" =>
           \/ /\ i = Len(installed)
              /\ current_node = installed[i]
           \/ /\ i + 1 = Len(installed)
              /\ installed[i + 1].name = "end_call"
              /\ Contains(HoldTheLine, installed[i + 1].task)
              /\ installed[i + 1].functions = <<>>

\* an escalation out of the respiratory assessment has reached the end node
C17_EscalatedToEnd ==
    /\ Len(installed) = 6
    /\ installed[4].name = "respiratorynode_assessment"
    /\ installed[5].name = "emergency"
    /\ installed[6].name = "end_call"

\* the keys of the session state a function's transition callback may write
OwnKeys(fn) ==
    CASE fn = "process_consent" -> {"consent_given"}
      [] fn = "collect_chief_complaint" -> {"chief_complaint"}
      [] fn = "assess_chest_pain" -> {"chest_pain_assessment"}
      [] fn = "assess_respiratory" -> {"respiratory_assessment"}
      [] fn = "collect_medical_history" -> {"medical_history"}
      [] fn = "handle_emergency" -> {"emergency"}
      [] OTHER -> {}

\* C18: a step removes no key of the session state and writes or changes
\* only the key that belongs to the function called in that step; the
\* wrap-up call writes nothing.
C18_OwnKeyOnly ==
    [][/\ DOMAIN state \subseteq DOMAIN state'
       /\ \A key \in DOMAIN state' : Written(key) => key \in OwnKeys(last_call'.fn)]_vars

\* a session that has written four keys, each by its own callback
C18_FourTopics ==
    /\ DOMAIN state = {"consent_given", "chief_complaint", "respiratory_assessment",
                       "medical_history"}
    /\ state["chief_complaint"].complaint = Str("bad cough")
    /\ current_node.name = "end_call"

\* C19: every end node installed offers no function and declares the
\* end_conversation post-action; it is the last node installed, and once it
\* is installed no node is installed and the session state does not change.
C19_EndIsTerminal ==
    /\ [](\A i \in 1..Len(installed) :
            installed[i].name = "end_call" =>
               /\ installed[i].functions = <<>>
               /\ installed[i].post_actions = <<[type |-> "end_conversation"]>>
               /\ i = Len(installed)
               /\ current_node = installed[i])
    /\ [][current_node.name = "end_call" =>
            /\ installed' = installed
            /\ current_node' = current_node
            /\ state' = state]_vars

\* the end node installed by the wrap-up callback
C19_EndAfterWrapUp ==
    /\ current_node.name = "end_call"
    /\ last_call.fn = "finish_conversation"
    /\ Contains("Goodbye", current_node.task)

\* C20: after a call of collect_medical_history the session state holds,
\* under medical_history, the four lists of the call (an absent one as the
\* empty list), and the node installed by the call is wrap_up.
C20_HistoryThenWrapUp ==
    last_call.fn = "collect_medical_history" =>
       /\ error = "none"
       /\ "medical_history" \in DOMAIN state
       /\ state["medical_history"] =
            [conditions |-> Get(last_call.args, "conditions", List(<<>>)),
             medications |-> Get(last_call.args, "medications", List(<<>>)),
             allergies |-> Get(last_call.args, "allergies", List(<<>>)),
             surgeries |-> Get(last_call.args, "surgeries", List(<<>>))]
       /\ current_node.name = "wrap_up"
       /\ installed[Len(installed)] = current_node

\* a history with every list empty
C20_EmptyHistory ==
    /\ last_call.fn = "collect_medical_history"
    /\ last_call.args = [conditions |-> List(<<>>), medications |-> List(<<>>),
                         allergies |-> List(<<>>), surgeries |-> List(<<>>)]
    /\ current_node.name = "wrap_up"

\* C21: the call of finish_conversation, made with no field at all, leaves
\* the session state as it was and installs the end node, whatever the
\* session has been through.
C21_WrapUpEnds ==
    /\ [](last_call.fn = "finish_conversation" =>
            /\ last_call.args = <<>>
            /\ error = "none"
            /\ current_node.name = "end_call"
            /\ installed[Len(installed) - 1].name = "wrap_up")
    /\ [][current_node.name = "wrap_up" =>
            /\ state' = state
            /\ last_call'.fn = "finish_conversation"
            /\ current_node'.name = "end_call"
            /\ installed' = Append(installed, current_node')]_vars

\* a session wrapped up after a respiratory assessment and the history
C21_WrappedUp ==
    /\ last_call.fn = "finish_conversation"
    /\ DOMAIN state = {"consent_given", "chief_complaint", "respiratory_assessment",
                       "medical_history"}
    /\ Len(installed) = 7

\* the declared fields of each function's handler
FullArgs(fn) ==
    IF fn = "process_consent" THEN FullConsentArgs
    ELSE IF fn = "collect_chief_complaint" THEN FullComplaintArgs
    ELSE IF fn = "assess_chest_pain" THEN FullChestPainArgs
    ELSE IF fn = "assess_respiratory" THEN FullRespiratoryArgs
    ELSE IF fn = "collect_medical_history" THEN FullMedicalHistoryArgs
    ELSE FullEmergencyArgs

\* the empty value of a field's type: empty list, false or empty string
EmptyDefault(field) ==
    IF field \in {"associated_symptoms", "aggravating_factors", "relieving_factors",
                  "conditions", "medications", "allergies", "surgeries"}
    THEN List(<<>>)
    ELSE IF field = "sputum_presence" THEN Bool(FALSE)
    ELSE Str("")

\* the last call returned a success result in which a missing consent gave
\* consent_given = false and every other missing field has the value Default
\* names for it
MissingFieldsTake(Default(_)) ==
    last_call.fn # "none" =>
       /\ ~Raised(last_call.result)
       /\ last_call.result.val.status = "success"
       /\ \A field \in DOMAIN FullArgs(last_call.fn) \ DOMAIN last_call.args :
             IF field = "consent"
             THEN last_call.result.val.consent_given = FALSE
             ELSE last_call.result.val[field] = Default(field)

\* C22 as stated: every handler, called with any subset of its fields
\* missing, returns a success result without raising, and each missing field
\* has its empty default (empty string, empty list or false).
C22_MissingFieldsEmptyDefault == MissingFieldsTake(EmptyDefault)

AmendedDefault(field) ==
    IF field = "emergency_reason" THEN Str("Unspecified emergency")
    ELSE EmptyDefault(field)

\* C22 as amended: every handler, called with any subset of its fields
\* missing, returns a success result without raising, and each missing field
\* has its default: empty string, empty list or false, and for the
\* emergency_reason of handle_emergency the text "Unspecified emergency".
C22_MissingFieldsDefault == MissingFieldsTake(AmendedDefault)

\* assess_chest_pain called with no field at all
C22_NoFieldAtAll ==
    /\ last_call.fn = "assess_chest_pain"
    /\ DOMAIN last_call.args = {}
    /\ ~Raised(last_call.result)
    /\ last_call.result.val.severity = Str("")

\* a field of the call has a type its schema does not declare
WrongType(fn, args) ==
    \/ /\ fn = "collect_chief_complaint"
       /\ "complaint" \in DOMAIN args
       /\ args.complaint.t # "str"
    \/ /\ fn \in AssessmentCalls
       /\ ~WellTyped(fn, args)

\* C23: a call with a field of the wrong type completes: the handler returns,
\* the transition callback raises nothing, and the node the call was made on
\* has been replaced by the next node.
C23_WrongTypeCoerced ==
    (last_call.fn # "none" /\ WrongType(last_call.fn, last_call.args))
    => /\ ~Raised(last_call.result)
       /\ error = "none"
       /\ ~Offers(last_call.fn)

C25_OneBotPerRoom ==
    \A pid1, pid2 \in 1..Len(bot_procs) :
        (/\ bot_procs[pid1].room_url = bot_procs[pid2].room_url
         /\ bot_procs[pid1].poll = "None"
         /\ bot_procs[pid2].poll = "None")
        => pid1 = pid2

\* C26: no step removes an entry of the registry, replaces it or moves it: a
\* lookup leaves the registry as it is and a registration leaves every
\* earlier entry in its place.
C26_RegistryOnlyGrows ==
    [][\A i \in 1..Len(flows) : i <= Len(flows') /\ flows'[i] = flows[i]]_vars

ActionTypes == {"alert_staff", "end_conversation"}

\* C27: every pre-action and post-action of every node installed has a type
\* of the fixed set; alert_staff occurs only among the pre-actions of an
\* emergency node and end_conversation only among the post-actions of an end
\* node.
C27_WellKnownActions ==
    \A i \in 1..Len(installed) :
        /\ \A k \in 1..Len(installed[i].pre_actions) :
              /\ installed[i].pre_actions[k].type \in ActionTypes
              /\ installed[i].pre_actions[k].type = "alert_staff"
              /\ installed[i].name = "emergency"
        /\ \A k \in 1..Len(installed[i].post_actions) :
              /\ installed[i].post_actions[k].type \in ActionTypes
              /\ installed[i].post_actions[k].type = "end_conversation"
              /\ installed[i].name = "end_call"

\* a session in which both kinds of action were declared
C27_BothActions ==
    /\ \E i \in 1..Len(installed) : Len(installed[i].pre_actions) = 1
    /\ \E i \in 1..Len(installed) : Len(installed[i].post_actions) = 1
    /\ last_call.fn = "handle_emergency"
    /\ DOMAIN last_call.args = {}

\* C28: in a session, when the state holds a topic key or the active node is
\* neither the entry node nor an end node, the state holds consent_given = true.
C28_ConsentGates ==
    (/\ pc = "session"
     /\ \/ DOMAIN state \cap TopicKeys # {}
        \/ current_node.name \notin {"initial", "end_call"})
    => /\ "consent_given" \in DOMAIN state
       /\ state["consent_given"] = TRUE

\* data was collected after consent
C28_CollectedAfterConsent ==
    /\ pc = "session"
    /\ current_node.name = "medical_history"
    /\ "chief_complaint" \in DOMAIN state
    /\ state["consent_given"] = TRUE

\* the consent argument is the boolean true or a str that is "true" up to case
SaysTrue(args) ==
    /\ "consent" \in DOMAIN args
    /\ \/ args.consent = Bool(TRUE)
       \/ /\ args.consent.t = "str"
          /\ Len(args.consent.s) = 4
          /\ \A i \in 1..4 :
                SubSeq(args.consent.s, i, i)
                    \in {SubSeq("true", i, i), SubSeq("TRUE", i, i)}

\* C29: verify_consent gives consent_given = true exactly for the boolean
\* true and for a string equal to "true" ignoring case; on true the session
\* goes to chief_complaint, on anything else to the end node.
C29_ConsentOnlyOnTrue ==
    last_call.fn = "process_consent" =>
       /\ ~Raised(last_call.result)
       /\ last_call.result.val.consent_given <=> SaysTrue(last_call.args)
       /\ current_node.name =
            IF SaysTrue(last_call.args) THEN "chief_complaint" ELSE "end_call"

\* "True" with a capital is consent
C29_CapitalTrue ==
    /\ last_call.fn = "process_consent"
    /\ last_call.args = [consent |-> Str("True")]
    /\ current_node.name = "chief_complaint"

\* C30: the session state never holds both the emergency record and the
\* medical history, and no medical_history or wrap_up node is installed
\* after an emergency node.
C30_EscalationPreempts ==
    /\ ~({"emergency", "medical_history"} \subseteq DOMAIN state)
    /\ \A i, j \in 1..Len(installed) :
          (i < j /\ installed[i].name = "emergency")
          => installed[j].name \notin {"medical_history", "wrap_up"}

\* an escalation recorded with the reason the call carried
C30_Escalated ==
    /\ "emergency" \in DOMAIN state
    /\ state["emergency"].reason = Str("patient feels dizzy")
    /\ "medical_history" \notin DOMAIN state
    /\ current_node.name = "end_call"

\* C31: an emergency node is installed right after a specialty assessment
\* node, by an assessment call whose result has the emergency flag set; when
\* the active node is the emergency node or the session state holds the
\* emergency record, the state holds chief_complaint and a specialty
\* assessment key; a session whose complaint matched no specialty has no
\* emergency node and no emergency record.
C31_EmergencyOnlyFromAssessment ==
    /\ \A i \in 1..Len(installed) :
          installed[i].name = "emergency" =>
             /\ i > 1
             /\ installed[i - 1].name \in AssessmentNames
    /\ current_node.name = "emergency" =>
          /\ last_call.fn \in AssessmentCalls
          /\ ~Raised(last_call.result)
          /\ EmergencyFlag(last_call.result.val)
    /\ (current_node.name = "emergency" \/ "emergency" \in DOMAIN state) =>
          /\ "chief_complaint" \in DOMAIN state
          /\ DOMAIN state \cap {"chest_pain_assessment", "respiratory_assessment"} # {}
    /\ specialty_flow = "None" =>
          /\ "emergency" \notin InstalledNames
          /\ "emergency" \notin DOMAIN state

\* the emergency node is active, after a keyword among the symptoms
C31_EmergencyActive ==
    /\ current_node.name = "emergency"
    /\ "respiratory_assessment" \in DOMAIN state
    /\ state["respiratory_assessment"].associated_symptoms
            = List(<<Str("fever"), Str("Blue lips")>>)

\* C32: the nodes of at most one specialty are installed in a session, and
\* the session state holds at most one specialty assessment key, also when
\* the complaint contains trigger phrases of both specialties.
C32_OneSpecialtyFlow ==
    /\ \/ InstalledNames \cap SpecialtyNodeNames
            \subseteq {"chestpainnode_intro", "chestpainnode_assessment"}
       \/ InstalledNames \cap SpecialtyNodeNames
            \subseteq {"respiratorynode_intro", "respiratorynode_assessment"}
    /\ Cardinality({i \in 1..Len(installed) : installed[i].name \in IntroNames}) <= 1
    /\ Cardinality({i \in 1..Len(installed) : installed[i].name \in AssessmentNames}) <= 1
    /\ ~({"chest_pain_assessment", "respiratory_assessment"} \subseteq DOMAIN state)

\* a complaint with trigger phrases of both registered specialties, at the
\* end of the session
C32_BothMatch ==
    /\ Len(flows) = 2
    /\ "chief_complaint" \in DOMAIN state
    /\ state["chief_complaint"].complaint = Str("Chest Pain and cough")
    /\ \A i \in 1..2 : any_trigger(flows[i], "chest pain and cough")
    /\ specialty_flow = "RespiratoryNode"
    /\ current_node.name = "end_call"

\* C33: in every result an assessment handler returns, the emergency reason
\* is a non-empty string when the emergency flag is true and null when it is
\* false.
C33_ReasonIffFlag ==
    (last_call.fn \in AssessmentCalls /\ ~Raised(last_call.result)) =>
       IF EmergencyFlag(last_call.result.val)
       THEN /\ last_call.result.val.emergency_reason.t = "str"
            /\ Len(last_call.result.val.emergency_reason.s) > 0
       ELSE last_call.result.val.emergency_reason = None

\* a respiratory result with no emergency
C33_NoEmergencyNoReason ==
    /\ last_call.fn = "assess_respiratory"
    /\ last_call.args = [breathing_difficulty |-> Str("severe"),
                         associated_symptoms |-> List(<<Str("wheezing")>>)]
    /\ ~EmergencyFlag(last_call.result.val)
    /\ last_call.result.val.emergency_reason = None

\* request r leaves the limit check in this step
Checked(r) == requests[r].pc = "new" /\ requests'[r].pc # "new"

\* a bot of the room that has not exited
RunningIn(room_url) ==
    \E pid \in 1..Len(bot_procs) :
        bot_procs[pid].room_url = room_url /\ bot_procs[pid].poll = "None"

\* C34: a request checked while its room has a running bot is refused with
\* an error and one checked while it has none, exited bots included, is
\* admitted; a step that refuses a request, for the limit or for want of a
\* token, leaves the table of bot processes as it was.
C34_RejectedSpawnsNothing ==
    [][\A r \in 1..MaxRequests :
        /\ Checked(r) =>
              requests'[r].pc =
                  IF RunningIn(requests'[r].room_url)
                  THEN "http_500_max_bots" ELSE "get_token"
        /\ (/\ requests'[r].pc # requests[r].pc
            /\ requests'[r].pc \in {"http_500_max_bots", "http_500_no_token"})
           => bot_procs' = bot_procs]_vars

\* one request was served and the other refused for the same room, whose
\* bot has exited since
C34_RefusedThenExited ==
    /\ requests[1] = [pc |-> "redirect", room_url |-> "roomA"]
    /\ requests[2] = [pc |-> "http_500_max_bots", room_url |-> "roomA"]
    /\ bot_procs = <<[room_url |-> "roomA", poll |-> "exited"]>>

====
